---------------------------- MODULE Spec2Model ----------------------------
(***************************************************************************)
(* Embedding store and similarity search of the image processing backend.  *)
(*                                                                         *)
(* The store is the `images` table (app/models/image.py).  The similarity  *)
(* operations are those of VectorService (app/services/vector_service.py)  *)
(* and of the GET /{image_id}/similar endpoint (app/api/v1/images.py).     *)
(*                                                                         *)
(* Numbers.  Embeddings are vectors of integers, all of Euclidean norm 5,  *)
(* so that the cosine of two of them is the rational dot/25 and every      *)
(* similarity is exact on a scale of SCALE = 100 (0.7 is 70, 1.0 is 100).  *)
(* Thresholds are integers on the same scale.                              *)
(***************************************************************************)
EXTENDS Integers, Sequences, FiniteSets, TLC

\* ------------------------------------------------------------------ bounds

\* Number of distinct ids (uuid4 values) the model draws from.
MaxId == 3

\* Largest limit a request carries.
MaxLimit == 2

\* Largest number of query vectors a batch search carries.
MaxBatch == 2

\* Largest content and largest filename generate_mock_embedding is called
\* with.
MaxContent == 2

MaxFilename == 3

\* ------------------------------------------------------- program constants

\* One unit of similarity is 1/SCALE: the fixed-point scale of the model
\* (four units per unit of dot product of two vectors of norm 5).
SCALE == 4 * 25

\* settings.EMBEDDING_DIMENSION, scaled down from 512 to the plane.
EMBEDDING_DIMENSION == 2

\* settings.SIMILARITY_THRESHOLD = 0.7
SIMILARITY_THRESHOLD == 70

\* Field(..., ge=0, le=1) of SimilarImage.similarity_score, on the scale.
SCORE_GE == 0
SCORE_LE == SCALE

\* HTTP status codes the endpoints answer with.
HTTP_200_OK == 200
HTTP_404_NOT_FOUND == 404
HTTP_500_INTERNAL_SERVER_ERROR == 500

\* ------------------------------------------------------------------ values

Ids == 1..MaxId

\* query_image_id = None (Optional[UUID]).
NoId == 0

\* An embedding read that found no row (None).
NoEmbedding == <<>>

NoRecord == [status |-> "absent"]

\* The embeddings of the model: unit vectors scaled by 5.
Vecs == {<<5, 0>>, <<4, 3>>, <<-3, 4>>}

\* Request parameters.  Neither limit nor threshold is range-checked by the
\* endpoint's signature (limit: int = 10, threshold: float = 0.7), so
\* negative limits and thresholds outside [0, SCALE] are inputs too.
Limits == (-1)..MaxLimit

Thresholds == {0 - SCALE, SIMILARITY_THRESHOLD, SCALE + 20}

VARIABLES
    store,      \* the images table: id -> record or NoRecord
    usedIds,    \* ids uuid4 has already produced (an id is never reused)
    req,        \* the GET /{image_id}/similar request in flight
    prev        \* history: the ids the preceding identical request returned,
                \* kept while the store is unchanged since its query ran

\* The state of the other services: VectorService's batch search and
\* duplicate search, and the embedding generator of ImageProcessingService.
VARIABLES
    batch,      \* the batch_similarity_search call in flight
    dup,        \* the find_duplicate_images call in flight
    rng,        \* the state of the module-level generator of `random`
    gen,        \* worker -> its generate_mock_embedding call
    seen,       \* history: (content, filename) -> the first vector returned
    op          \* the last call of an endpoint or service function that
                \* ran from its first statement to its answer

serviceVars == <<batch, dup, rng, gen, seen, op>>

vars == <<store, usedIds, req, prev, batch, dup, rng, gen, seen, op>>

\* ----------------------------------------------------------- vector algebra

RECURSIVE DotFrom(_, _, _)
DotFrom(a, b, i) ==
    IF i > Len(a) THEN 0 ELSE a[i] * b[i] + DotFrom(a, b, i + 1)

Dot(a, b) == DotFrom(a, b, 1)

\* Euclidean norm; the vectors of the model have integral norms.
Root(d) == CHOOSE n \in 0..d : n * n = d

Norm(a) == Root(Dot(a, a))

\* pgvector's a <=> b: 1 - dot(a,b) / (|a| |b|), on the scale.
CosineDistance(a, b) == SCALE - ((SCALE * Dot(a, b)) \div (Norm(a) * Norm(b)))

\* The SQL expression 1 - (embedding_vector <=> query).
SimilarityScore(a, b) == SCALE - CosineDistance(a, b)

\* ------------------------------------------------- VectorService: the query

\* Mutant: the status clause keeps every record.
IsCompleted_AnyStatus(r) == r.status \in {"pending", "completed"}

\* .where(Image.processing_status == "completed")
IsCompleted(r) == r.status = "completed"

\* Mutant: the threshold is applied to the distance, not to the similarity.
MeetsThreshold_Distance(score, threshold) == SCALE - score >= threshold

\* .where((1 - cosine_distance) >= threshold)
MeetsThreshold(score, threshold) == score >= threshold

\* Mutant: the exclusion clause is never added.
NotExcluded_Ignored(id, query_image_id) == TRUE

\* if query_image_id: stmt = stmt.where(Image.id != query_image_id)
NotExcluded(id, query_image_id) == query_image_id = NoId \/ id # query_image_id

\* The rows the WHERE clauses of find_similar_images keep.
Candidates(st, query_embedding, query_image_id, threshold) ==
    {i \in Ids :
        /\ st[i] # NoRecord
        /\ IsCompleted(st[i])
        /\ MeetsThreshold(SimilarityScore(st[i].embedding_vector, query_embedding),
                          threshold)
        /\ NotExcluded(i, query_image_id)}

\* One selected row: Image.id and the labelled similarity_score.
Row(st, query_embedding, i) ==
    [id |-> i,
     similarity_score |-> SimilarityScore(st[i].embedding_vector, query_embedding)]

\* Mutant: order_by without desc.
OrderedAsc(rows) ==
    \A i, j \in 1..Len(rows) :
        i < j => rows[i].similarity_score <= rows[j].similarity_score

\* order_by(desc('similarity_score')): the only sort key is the score, so the
\* order of rows of equal score is whatever the database produces.
OrderedDesc(rows) ==
    \A i, j \in 1..Len(rows) :
        i < j => rows[i].similarity_score >= rows[j].similarity_score

\* Every order of the candidate rows that ORDER BY similarity_score DESC allows.
Orderings(st, query_embedding, cands) ==
    {rows \in [1..Cardinality(cands) -> {Row(st, query_embedding, i) : i \in cands}] :
        /\ \A i, j \in 1..Cardinality(cands) : i # j => rows[i].id # rows[j].id
        /\ OrderedDesc(rows)}

\* Mutant: the statement carries no LIMIT.
LimitRows_Unlimited(rows, limit) == rows

\* Mutant: the statement keeps one row fewer than the limit.
LimitRows_OneLess(rows, limit) ==
    LET n == IF limit > 0 THEN limit - 1 ELSE 0
    IN  SubSeq(rows, 1, IF Len(rows) < n THEN Len(rows) ELSE n)

\* .limit(limit) for limit >= 0: the first `limit` rows of the ordered rows.
LimitRows(rows, limit) ==
    SubSeq(rows, 1, IF Len(rows) < limit THEN Len(rows) ELSE limit)

\* The row sequences the statement of find_similar_images may return.
RankRows(st, query_embedding, query_image_id, limit, threshold) ==
    {LimitRows(rows, limit) :
        rows \in Orderings(st, query_embedding,
                           Candidates(st, query_embedding, query_image_id, threshold))}

\* SimilarImage(similarity_score=...) accepts a score in [0, 1] only.
ValidScore(score) == score >= SCORE_GE /\ score <= SCORE_LE

Ok(rows) == [kind |-> "ok", error |-> "none", rows |-> rows]

\* raise RuntimeError(<message>): the message tells the three handlers apart.
Failure(error) == [kind |-> "RuntimeError", error |-> error, rows |-> <<>>]

NoOutcome == [kind |-> "none", error |-> "none", rows |-> <<>>]

\* What the store does with a statement: it runs it ("none") or it fails
\* (SQLAlchemyError).  The `except Exception` handlers are reached by the
\* validation error of SimilarImage below.
Faults == {"none", "database"}

\* find_similar_images once session.execute has answered within the deadline.
\* fault: what the store did ("none": it ran the statement).  PostgreSQL
\* rejects a negative LIMIT, which reaches the SQLAlchemyError handler.
FindSimilarOutcomes(st, query_embedding, query_image_id, limit, threshold, fault) ==
    IF fault # "none" THEN {Failure(fault)}
    ELSE IF limit < 0 THEN {Failure("database")}
    ELSE {IF \A k \in 1..Len(rows) : ValidScore(rows[k].similarity_score)
             THEN Ok(rows)
             ELSE Failure("unexpected") :
          rows \in RankRows(st, query_embedding, query_image_id, limit, threshold)}

\* Mutant: no handler for asyncio.TimeoutError; `except Exception` takes it.
TimeoutOutcome_Generic == Failure("unexpected")

\* asyncio.wait_for(...) raised asyncio.TimeoutError.
TimeoutOutcome == Failure("timeout")

\* Mutant: the embedding read does not look at the status.
GetImageEmbedding_AnyStatus(st, image_id) ==
    IF st[image_id] # NoRecord THEN st[image_id].embedding_vector ELSE NoEmbedding

\* get_image_embedding: the embedding of a completed record, else None.
GetImageEmbedding(st, image_id) ==
    IF st[image_id] # NoRecord /\ IsCompleted(st[image_id])
        THEN st[image_id].embedding_vector
        ELSE NoEmbedding

\* ------------------------------------------------------------- the records

\* Mutant: the status is set and the timestamp is left NULL.
CompletedRecord_NoTimestamp(v) ==
    [status |-> "completed", embedding_vector |-> v, processed_timestamp |-> FALSE]

\* Image(...) as upload_image builds it: completed, with its timestamp.
CompletedRecord(v) ==
    [status |-> "completed", embedding_vector |-> v, processed_timestamp |-> TRUE]

\* Image(...) with the column defaults: processing_status "pending",
\* processed_timestamp NULL.
PendingRecord(v) ==
    [status |-> "pending", embedding_vector |-> v, processed_timestamp |-> FALSE]

\* ---------------------------------------------- GET /{image_id}/similar

NoResponse ==
    [status_code |-> 0, detail |-> "none", similar_images |-> <<>>, total_results |-> 0]

IdleRequest ==
    [pc |-> "idle", image_id |-> NoId, limit |-> 0, threshold |-> 0,
     query_embedding |-> NoEmbedding, fault |-> "none",
     outcome |-> NoOutcome, response |-> NoResponse]

\* raise HTTPException(status_code=404, ...)
NotFoundResponse ==
    [status_code |-> HTTP_404_NOT_FOUND, detail |-> "not found or not processed",
     similar_images |-> <<>>, total_results |-> 0]

\* except Exception as e: raise HTTPException(500, f"Failed ...: {str(e)}")
ErrorResponse(error) ==
    [status_code |-> HTTP_500_INTERNAL_SERVER_ERROR, detail |-> error,
     similar_images |-> <<>>, total_results |-> 0]

\* SimilarImagesResponse(similar_images=..., total_results=len(...))
OkResponse(rows) ==
    [status_code |-> HTTP_200_OK, detail |-> "none",
     similar_images |-> rows, total_results |-> Len(rows)]

\* Mutant: a failed search is answered like a search without matches.
ResponseOf_Swallow(outcome) == OkResponse(outcome.rows)

\* What the endpoint answers for an outcome of find_similar_images.
ResponseOf(outcome) ==
    IF outcome.kind = "ok" THEN OkResponse(outcome.rows)
    ELSE ErrorResponse(outcome.error)

\* The endpoint up to the point where the ranking statement is issued:
\* the embedding read, the 404 for `not query_embedding`, the 500 for a
\* RuntimeError of get_image_embedding.
StartRequest(st, image_id, limit, threshold, fault) ==
    LET args == [IdleRequest EXCEPT !.image_id = image_id, !.limit = limit,
                                    !.threshold = threshold, !.fault = fault]
        emb == GetImageEmbedding(st, image_id)
    IN  IF fault # "none"
            THEN [args EXCEPT !.pc = "done", !.response = ErrorResponse(fault)]
        ELSE IF emb = NoEmbedding
            THEN [args EXCEPT !.pc = "done", !.response = NotFoundResponse]
        ELSE [args EXCEPT !.pc = "querying", !.query_embedding = emb]

\* Mutant: the response lists the query image itself as the best match.
FinishRequest_WithSelf(r, fault, outcome) ==
    [r EXCEPT !.pc = "done", !.fault = fault, !.outcome = outcome,
              !.response =
                  IF outcome.kind = "ok"
                      THEN OkResponse(<<[id |-> r.image_id, similarity_score |-> SCALE]>>
                                      \o outcome.rows)
                      ELSE ErrorResponse(outcome.error)]

\* The request once find_similar_images has ended with `outcome`.
FinishRequest(r, fault, outcome) ==
    [r EXCEPT !.pc = "done", !.fault = fault, !.outcome = outcome,
              !.response = ResponseOf(outcome)]

RowIds(rows) == [k \in 1..Len(rows) |-> rows[k].id]

NoHistory == [known |-> FALSE, ids |-> <<>>]

\* A write to the store ends the history of calls against an unchanged store.
HistoryAfterWrite(st) == IF st = store THEN prev ELSE NoHistory

\* A finished request holds no reference to the store: its answer is fixed
\* and a later write commutes with its delivery.  The model delivers the
\* answer (SimilarReturn, SimilarRepeat) before it takes the next write.
NoAnswerPending == req.pc # "done"

\* ------------------------------------ VectorService: batch similarity search

\* threshold: float = None
NoThreshold == 0 - 10 * SCALE

\* if threshold is None: threshold = settings.SIMILARITY_THRESHOLD
ThresholdOrDefault(threshold) ==
    IF threshold = NoThreshold THEN SIMILARITY_THRESHOLD ELSE threshold

\* query_embeddings: List[List[float]], the empty list included.  Two
\* directions are enough for a batch to hold equal and different queries.
BatchVecs == {<<5, 0>>, <<4, 3>>}

\* The embeddings of the records a batch runs against: one that every query
\* of the batch is similar to, and one that none is similar to (and that
\* scores below 0 against a query).
BatchStoreVecs == {<<5, 0>>, <<-3, 4>>}

BatchQueries == UNION {[1..n -> BatchVecs] : n \in 0..MaxBatch}

\* limit: int = 5; one result per query, or up to the largest limit.
BatchLimits == {1, MaxLimit}

BatchThresholds == {NoThreshold, 0 - SCALE}

\* How a sub-query may end: as the statement answers, or at the deadline.
BatchFaults == Faults \cup {"deadline"}

\* One find_similar_images call of the batch: no query_image_id is passed.
SubQueryOutcomes(st, embedding, limit, threshold, fault) ==
    IF fault = "deadline" THEN {TimeoutOutcome}
    ELSE FindSimilarOutcomes(st, embedding, NoId, limit,
                             ThresholdOrDefault(threshold), fault)

\* What the caller of the batch holds: nothing, or the returned list.
NoReturn == [returned |-> FALSE, results |-> <<>>]

IdleBatch ==
    [pc |-> "idle", query_embeddings |-> <<>>, limit |-> 0,
     threshold |-> NoThreshold,
     results |-> <<>>,      \* the local list `results`
     started |-> 0,         \* find_similar_images calls made so far
     last |-> NoOutcome,    \* how the latest of them ended
     error |-> "none",      \* the exception that left the call
     value |-> NoReturn]

\* results = []
StartBatch(query_embeddings, limit, threshold) ==
    [IdleBatch EXCEPT !.pc = "running", !.query_embeddings = query_embeddings,
                      !.limit = limit, !.threshold = threshold]

\* Mutant: a failed sub-query counts as one without matches.
BatchAfter_Continue(b, outcome) ==
    [b EXCEPT !.results = Append(@, outcome.rows),
              !.started = @ + 1, !.last = outcome]

\* Mutant: the newest result list is put in front.
BatchAfter_Prepend(b, outcome) ==
    IF outcome.kind = "ok"
        THEN [b EXCEPT !.results = <<outcome.rows>> \o @,
                       !.started = @ + 1, !.last = outcome]
        ELSE [b EXCEPT !.pc = "raised", !.error = outcome.error,
                       !.started = @ + 1, !.last = outcome]

\* One turn of the loop: results.append(similar_images), or the RuntimeError
\* of find_similar_images leaves the loop and the call (there is no handler).
BatchAfter(b, outcome) ==
    IF outcome.kind = "ok"
        THEN [b EXCEPT !.results = Append(@, outcome.rows),
                       !.started = @ + 1, !.last = outcome]
        ELSE [b EXCEPT !.pc = "raised", !.error = outcome.error,
                       !.started = @ + 1, !.last = outcome]

\* return results
ReturnBatch(b) ==
    [b EXCEPT !.pc = "returned",
              !.value = [returned |-> TRUE, results |-> b.results]]

\* ---------------------------------------- VectorService: duplicate search

\* threshold: float = 0.95
DUPLICATE_THRESHOLD == 95

DupThresholds == {DUPLICATE_THRESHOLD, 0, 0 - SCALE}

\* Mutant: the join keeps both orders of a pair, and drops self-pairs only.
DupIdOrder_Distinct(id1, id2) == id1 # id2

\* AND i1.id < i2.id  -- Avoid duplicates and self-comparison
DupIdOrder(id1, id2) == id1 < id2

\* Mutant: the status clause is put on i1 only.
DupBothCompleted_First(r1, r2) == r1.status = "completed"

\* WHERE i1.processing_status = 'completed'
\*   AND i2.processing_status = 'completed'
DupBothCompleted(r1, r2) == r1.status = "completed" /\ r2.status = "completed"

\* The rows of images i1 CROSS JOIN images i2 the WHERE clause keeps.
ImagePairs(st, threshold) ==
    {p \in Ids \X Ids :
        /\ st[p[1]] # NoRecord
        /\ st[p[2]] # NoRecord
        /\ DupBothCompleted(st[p[1]], st[p[2]])
        /\ DupIdOrder(p[1], p[2])
        /\ SimilarityScore(st[p[1]].embedding_vector,
                           st[p[2]].embedding_vector) >= threshold}

\* SELECT i1.id as id1, i2.id as id2, 1 - (... <=> ...) as similarity
PairRow(st, p) ==
    [id1 |-> p[1], id2 |-> p[2],
     similarity |-> SimilarityScore(st[p[1]].embedding_vector,
                                    st[p[2]].embedding_vector)]

\* ORDER BY similarity DESC: every order of the rows in which no row comes
\* before a row of greater similarity.
RECURSIVE DescOrders(_)
DescOrders(rows) ==
    IF rows = {} THEN {<<>>}
    ELSE UNION {{<<r>> \o tail : tail \in DescOrders(rows \ {r})} :
                r \in {x \in rows : \A y \in rows : x.similarity >= y.similarity}}

\* The row sequences the statement of find_duplicate_images may return.
DuplicateRows(st, threshold, limit) ==
    {LimitRows(rows, limit) :
        rows \in DescOrders({PairRow(st, p) : p \in ImagePairs(st, threshold)})}

\* find_duplicate_images: the tuples of the rows; a SQLAlchemyError (a fault
\* of the store, or the negative LIMIT PostgreSQL rejects) as RuntimeError.
DuplicateOutcomes(st, threshold, limit, fault) ==
    IF fault # "none" THEN {Failure(fault)}
    ELSE IF limit < 0 THEN {Failure("database")}
    ELSE {Ok(rows) : rows \in DuplicateRows(st, threshold, limit)}

IdleDup ==
    [pc |-> "idle", threshold |-> DUPLICATE_THRESHOLD, limit |-> 0,
     outcome |-> NoOutcome]

\* ------------------------- ImageProcessingService: generate_mock_embedding

\* The contents and the filenames a call is made with.
Contents == 1..MaxContent

Filenames == 1..MaxFilename

\* The threads that may run generate_mock_embedding in one process.
Workers == {"w1", "w2"}

\* hexdigest() of SHA-256: 64 hexadecimal digits, scaled down to 3.
HASH_LENGTH == 3

\* combined_hash[:8], scaled down to the first 2 digits.
PREFIX_LENGTH == 2

HexDigits == 0..15

\* hashlib.sha256(content).hexdigest(), as a number naming the digest.
\* Stand-in for the library function: different contents of the model get
\* different digests.
ContentHash(content) == (3 * content + 1) % 16

\* hashlib.md5(filename.encode()).hexdigest(), as a number naming the
\* digest.  Stand-in for the library function.  MD5 is not collision
\* resistant: different filenames with one digest exist and are known, and
\* so they do in the model (filenames 1 and 3).
FilenameHash(filename) == (filename * filename) % 4

\* hashlib.sha256(f"{content_hash}_{filename_hash}".encode()).hexdigest():
\* HASH_LENGTH hexadecimal digits, a function of the two digests only.
CombinedHash(content, filename) ==
    LET ch == ContentHash(content)
        fh == FilenameHash(filename)
    IN  [k \in 1..HASH_LENGTH |->
            (7 * ch + 11 * fh + 7 * (k - 1) + ch * fh) % 16]

\* int(combined_hash[:8], 16)
RECURSIVE HexValue(_, _)
HexValue(digits, n) ==
    IF n = 0 THEN 0 ELSE 16 * HexValue(digits, n - 1) + digits[n]

PrefixValue(combined_hash) == HexValue(combined_hash, PREFIX_LENGTH)

\* random.seed(combined_hash): the seed a string is turned into.
StringSeed(combined_hash) == HexValue(combined_hash, HASH_LENGTH)

\* seed_offset = int(combined_hash[i % len(combined_hash)], 16), i from 0.
SeedOffset(combined_hash, i) == combined_hash[(i % HASH_LENGTH) + 1]

\* int(combined_hash[:8], 16) + i + seed_offset
DimensionSeed(combined_hash, i) ==
    PrefixValue(combined_hash) + i + SeedOffset(combined_hash, i)

\* The states of the module-level generator of `random`, scaled down.
GeneratorStates == 0..14

\* Mutant: seeding leaves the generator as it is.
Reseed_Keep(state, a) == state

\* random.seed(a): the state is a function of the seed alone.
Reseed(state, a) == a % Cardinality(GeneratorStates)

\* random.uniform(-1, 1) returns k / UNIFORM_STEPS, k in -UNIFORM_STEPS ..
\* UNIFORM_STEPS, a function of the generator's state ...
UNIFORM_STEPS == 3

Uniform(state) == (state % (2 * UNIFORM_STEPS + 1)) - UNIFORM_STEPS

\* ... and moves the generator on.
Advance(state) == (4 * state + 1) % Cardinality(GeneratorStates)

\* Mutant: the loop runs over the digits of the hash.
LoopOver_Hash(i) == i >= HASH_LENGTH

\* for i in range(settings.EMBEDDING_DIMENSION): the range is exhausted.
LoopOver(i) == i >= EMBEDDING_DIMENSION

\* A returned component x is the integer UNIT * x (1.0 is UNIT); a raw
\* component is the integer k of k / UNIFORM_STEPS.
UNIT == 10 * 1000

\* Digits kept of a square root.
ROOT_UNIT == 10 * 100

\* math.sqrt, rounded down: the greatest r in lo..hi with r * r <= v.
RECURSIVE SqrtBetween(_, _, _)
SqrtBetween(lo, hi, v) ==
    IF lo = hi THEN lo
    ELSE LET mid == (lo + hi + 1) \div 2
         IN  IF mid * mid <= v THEN SqrtBetween(mid, hi, v)
             ELSE SqrtBetween(lo, mid - 1, v)

\* norm = math.sqrt(sum(x**2 for x in embedding)), in units of 1/ROOT_UNIT.
RawNorm(embedding) ==
    SqrtBetween(0, ROOT_UNIT * UNIFORM_STEPS * (Len(embedding) + 1),
                ROOT_UNIT * ROOT_UNIT * Dot(embedding, embedding))

\* Mutant: the components are divided by the sum of the squares.
Scaled_BySquares(embedding, norm) ==
    [i \in 1..Len(embedding) |->
        (embedding[i] * UNIT) \div Dot(embedding, embedding)]

\* [x / norm for x in embedding]
Scaled(embedding, norm) ==
    [i \in 1..Len(embedding) |-> (embedding[i] * UNIT * ROOT_UNIT) \div norm]

\* if norm > 0: embedding = [x / norm for x in embedding]
Normalized(embedding) ==
    LET norm == RawNorm(embedding)
    IN  IF norm > 0 THEN Scaled(embedding, norm) ELSE embedding

IdleCall ==
    [pc |-> "idle", content |-> 0, filename |-> 0, combined_hash |-> <<>>,
     i |-> 0,               \* the loop variable
     embedding |-> <<>>,    \* the list `embedding` of raw values
     result |-> <<>>]       \* the list returned

\* History: one earlier call, its vector, and whether the generator has been
\* used for anything else since.
NoCall ==
    [known |-> FALSE, content |-> 0, filename |-> 0, vector |-> <<>>,
     disturbed |-> FALSE]

SameInputs(call) ==
    seen.known /\ seen.content = call.content /\ seen.filename = call.filename

\* The history after a use of the generator that is not a call with the
\* remembered inputs.
Disturbed(content, filename) ==
    IF seen.known /\ ~(seen.content = content /\ seen.filename = filename)
        THEN [seen EXCEPT !.disturbed = TRUE]
        ELSE seen

\* The history once `call` has returned: the first call may be remembered.
Remembered(call) ==
    IF seen.known THEN {seen}
    ELSE {seen, [known |-> TRUE, content |-> call.content,
                 filename |-> call.filename, vector |-> call.result,
                 disturbed |-> FALSE]}

\* --------------------------------- ImageProcessingService: the uploaded file

\* settings.MAX_FILE_SIZE, in bytes (the model counts in units of 5 MB).
MAX_FILE_SIZE == 2

\* status_code=413 and status_code=400 of validate_image.
HTTP_413_REQUEST_ENTITY_TOO_LARGE == 413
HTTP_400_BAD_REQUEST == 400

\* len(content): from the empty file to one unit over the maximum.
ContentLengths == 0..(MAX_FILE_SIZE + 1)

\* The bytes are no image PIL can open.
NoImage == [format |-> "none"]

\* What PIL finds in the bytes of an image: img.format, img.mode, img.size,
\* whether img.info has a "transparency" entry, and the state of the EXIF
\* block that img._getexif() parses.
DecodedImages ==
    { [format |-> "JPEG", mode |-> "RGB", width |-> 4, height |-> 3,
       transparency |-> FALSE, exif |-> "none"],
      [format |-> "PNG", mode |-> "RGBA", width |-> 2, height |-> 2,
       transparency |-> FALSE, exif |-> "none"],
      [format |-> "GIF", mode |-> "P", width |-> 1, height |-> 1,
       transparency |-> TRUE, exif |-> "none"],
      [format |-> "JPEG", mode |-> "RGB", width |-> 3, height |-> 3,
       transparency |-> FALSE, exif |-> "malformed"] }

\* content: bytes, by its length and by what PIL decodes from it.  No image
\* fits in zero bytes.
FileContents ==
    { c \in [length : ContentLengths, image : DecodedImages \cup {NoImage}] :
          c.length = 0 => c.image = NoImage }

\* content_type, split at the "/".
ContentTypes ==
    { <<"image", "jpeg">>, <<"image", "png">>, <<"text", "plain">>,
      <<"application", "octet-stream">> }

\* filename, split at its dots.
UploadFilenames ==
    { <<"photo", "jpg">>, <<"photo", "PNG">>, <<"notes", "txt">>, <<"photo">>,
      <<"photo", "png", "exe">> }

\* str.lower() on the parts the filenames above are made of.
Lower(part) == IF part = "PNG" THEN "png" ELSE part

\* settings.ALLOWED_EXTENSIONS
ALLOWED_EXTENSIONS ==
    { <<".", "jpg">>, <<".", "jpeg">>, <<".", "png">>, <<".", "gif">>, <<".", "bmp">> }

\* content_type.startswith("image/")
StartsWithImage(content_type) == content_type[1] = "image"

\* filename.lower().split(".")[-1] if "." in filename else ""
FileExtension(filename) ==
    IF Len(filename) > 1 THEN Lower(filename[Len(filename)]) ELSE ""

\* f".{file_extension}" in [ext.lower() for ext in settings.ALLOWED_EXTENSIONS]
ExtensionAllowed(filename) == <<".", FileExtension(filename)>> \in ALLOWED_EXTENSIONS

\* Image.open(io.BytesIO(content)) and img.verify() raise nothing.
Verifies(content) == content.image # NoImage

NoException == [raised |-> FALSE, status_code |-> 0, detail |-> "none"]

HTTPException(status_code, detail) ==
    [raised |-> TRUE, status_code |-> status_code, detail |-> detail]

\* Mutant: the content type is looked at before the size.
ValidateImage_TypeFirst(content, content_type, filename) ==
    IF ~StartsWithImage(content_type)
        THEN HTTPException(HTTP_400_BAD_REQUEST, "File must be an image")
    ELSE IF content.length > MAX_FILE_SIZE
        THEN HTTPException(HTTP_413_REQUEST_ENTITY_TOO_LARGE, "File size exceeds maximum")
    ELSE IF ~ExtensionAllowed(filename)
        THEN HTTPException(HTTP_400_BAD_REQUEST, "File extension not allowed")
    ELSE IF ~Verifies(content)
        THEN HTTPException(HTTP_400_BAD_REQUEST, "Invalid image file")
    ELSE NoException

\* validate_image: the exception it raises, or NoException when it returns.
ValidateImage(content, content_type, filename) ==
    IF content.length > MAX_FILE_SIZE
        THEN HTTPException(HTTP_413_REQUEST_ENTITY_TOO_LARGE, "File size exceeds maximum")
    ELSE IF ~StartsWithImage(content_type)
        THEN HTTPException(HTTP_400_BAD_REQUEST, "File must be an image")
    ELSE IF ~ExtensionAllowed(filename)
        THEN HTTPException(HTTP_400_BAD_REQUEST, "File extension not allowed")
    ELSE IF ~Verifies(content)
        THEN HTTPException(HTTP_400_BAD_REQUEST, "Invalid image file")
    ELSE NoException

NoMetadata == [format |-> "none"]

\* The dictionary of the except branch of extract_image_metadata.
FallbackMetadata ==
    [format |-> "unknown", mode |-> "unknown", width |-> 0, height |-> 0,
     has_transparency |-> FALSE, extraction_error |-> "error"]

\* The dictionary of the try branch.
ImageMetadata(img) ==
    [format |-> img.format, mode |-> img.mode, width |-> img.width,
     height |-> img.height,
     has_transparency |-> (img.mode \in {"RGBA", "LA"} \/ img.transparency)]

\* A statement of the try branch raises: Image.open on bytes that are no
\* image, img._getexif() on a malformed EXIF block.
ExtractionFails(content) ==
    content.image = NoImage \/ content.image.exif = "malformed"

Returned(value) == [raised |-> FALSE, value |-> value]

Raised(error) == [raised |-> TRUE, value |-> error]

\* Mutant: no except branch, the exception of PIL leaves the function.
ExtractImageMetadata_NoHandler(content) ==
    IF ExtractionFails(content) THEN Raised("UnidentifiedImageError")
    ELSE Returned(ImageMetadata(content.image))

\* extract_image_metadata
ExtractImageMetadata(content) ==
    IF ExtractionFails(content) THEN Returned(FallbackMetadata)
    ELSE Returned(ImageMetadata(content.image))

\* metadata.update({...}) of process_image.
WithProcessingInfo(metadata) ==
    [k \in DOMAIN metadata \cup {"embedding_method", "embedding_dimension"} |->
        IF k = "embedding_method" THEN "mock_hash_based"
        ELSE IF k = "embedding_dimension" THEN EMBEDDING_DIMENSION
        ELSE metadata[k]]

\* Mutant: the metadata is extracted before the file is validated.
ProcessImage_ExtractFirst(content, filename, content_type, embedding) ==
    LET metadata == ExtractImageMetadata(content)
        error == ValidateImage(content, content_type, filename)
    IN  IF error.raised
            THEN [raised |-> TRUE, exception |-> error,
                  invoked |-> <<"extract_image_metadata", "validate_image">>,
                  embedding |-> NoEmbedding, metadata |-> NoMetadata]
        ELSE [raised |-> FALSE, exception |-> NoException,
              invoked |-> <<"extract_image_metadata", "validate_image",
                            "generate_mock_embedding">>,
              embedding |-> embedding,
              metadata |-> WithProcessingInfo(metadata.value)]

\* process_image: validate_image, extract_image_metadata, the update of the
\* metadata, generate_mock_embedding.  `embedding` is the vector
\* generate_mock_embedding returns for (content, filename); `invoked` lists
\* the functions called, in order.
ProcessImage(content, filename, content_type, embedding) ==
    LET error == ValidateImage(content, content_type, filename)
        metadata == ExtractImageMetadata(content)
    IN  IF error.raised
            THEN [raised |-> TRUE, exception |-> error,
                  invoked |-> <<"validate_image">>,
                  embedding |-> NoEmbedding, metadata |-> NoMetadata]
        ELSE IF metadata.raised
            THEN [raised |-> TRUE,
                  exception |-> HTTPException(HTTP_500_INTERNAL_SERVER_ERROR,
                                              metadata.value),
                  invoked |-> <<"validate_image", "extract_image_metadata">>,
                  embedding |-> NoEmbedding, metadata |-> NoMetadata]
        ELSE [raised |-> FALSE, exception |-> NoException,
              invoked |-> <<"validate_image", "extract_image_metadata",
                            "generate_mock_embedding">>,
              embedding |-> embedding,
              metadata |-> WithProcessingInfo(metadata.value)]

\* No call has run yet.
NoOp == [name |-> "none"]

\* ------------------------------------------- the endpoints, call by call

HTTP_201_CREATED == 201
HTTP_204_NO_CONTENT == 204

\* The files a client uploads: two valid images, and one file for each way
\* to fail validate_image (oversized, no image content type, extension not
\* allowed, bytes that are no image, the empty file).
UploadFiles ==
    LET jpeg == CHOOSE i \in DecodedImages : i.format = "JPEG" /\ i.exif = "none"
        png == CHOOSE i \in DecodedImages : i.format = "PNG"
        File(length, image, content_type, filename) ==
            [content |-> [length |-> length, image |-> image],
             content_type |-> content_type, filename |-> filename]
    IN  { File(1, jpeg, <<"image", "jpeg">>, <<"photo", "jpg">>),
          File(MAX_FILE_SIZE, png, <<"image", "png">>, <<"photo", "PNG">>),
          File(MAX_FILE_SIZE + 1, jpeg, <<"image", "jpeg">>, <<"photo", "jpg">>),
          File(1, jpeg, <<"text", "plain">>, <<"photo", "jpg">>),
          File(1, jpeg, <<"image", "jpeg">>, <<"notes", "txt">>),
          File(1, NoImage, <<"image", "jpeg">>, <<"photo", "jpg">>),
          File(0, NoImage, <<"image", "png">>, <<"photo", "PNG">>) }

\* generate_mock_embedding(content, filename) for the valid files: one
\* vector for each (content, filename).
MockEmbedding(file) ==
    IF file.content.image.format = "PNG" THEN <<4, 3>> ELSE <<5, 0>>

\* The embedding of a record created pending.
PendingVecs == {<<5, 0>>}

\* The embedding a caller hands to store_image_embedding.
StoredVecs == {<<4, 3>>}

\* A list that is no vector of EMBEDDING_DIMENSION elements.
WrongVecs == {<<5, 0, 0>>}

\* Image(filename=..., content_type=..., file_size=len(content),
\* embedding_vector=embedding, image_metadata=metadata,
\* processing_status="completed", processed_timestamp=datetime.utcnow())
ImageRecord(file, embedding, metadata) ==
    LET r == CompletedRecord(embedding)
    IN  [status |-> r.status, embedding_vector |-> r.embedding_vector,
         processed_timestamp |-> r.processed_timestamp,
         filename |-> file.filename, content_type |-> file.content_type,
         file_size |-> file.content.length, image_metadata |-> metadata]

\* Mutant: the row is kept and marked as deleted.
AfterDelete_Soft(st, image_id) == [st EXCEPT ![image_id].status = "deleted"]

\* session.delete(image); session.commit()
AfterDelete(st, image_id) == [st EXCEPT ![image_id] = NoRecord]

\* Mutant: the record is replaced by a fresh completed record.
WithEmbedding_Fresh(r, embedding) == CompletedRecord(embedding)

\* image.embedding_vector = embedding; image.processing_status = "completed";
\* image.processed_timestamp = datetime.utcnow()
WithEmbedding(r, embedding) ==
    [r EXCEPT !.embedding_vector = embedding,
              !.status = CompletedRecord(embedding).status,
              !.processed_timestamp = CompletedRecord(embedding).processed_timestamp]

\* Mutant: the column takes a list of any length.
DimensionAccepted_Any(embedding) == TRUE

\* Vector(settings.EMBEDDING_DIMENSION): the column takes the value.
DimensionAccepted(embedding) == Len(embedding) = EMBEDDING_DIMENSION

\* Mutant: the failed transaction is left as it is.
Rollback_Keep(before, after) == after

\* session.rollback(): the table is as it was before the transaction.
Rollback(before, after) == before

\* store_image_embedding: the table after the call, the value returned, and
\* whether the call raised its RuntimeError.  A store fault, and a value the
\* column does not take, are SQLAlchemyErrors of the commit.
StoreImageEmbeddingResult(st, image_id, embedding, fault) ==
    LET updated == [st EXCEPT ![image_id] = WithEmbedding(st[image_id], embedding)]
    IN  IF fault # "none"
            THEN [store |-> IF st[image_id] = NoRecord THEN st ELSE Rollback(st, updated),
                  returned |-> FALSE, raised |-> TRUE]
        ELSE IF st[image_id] = NoRecord
            THEN [store |-> st, returned |-> FALSE, raised |-> FALSE]
        ELSE IF ~DimensionAccepted(embedding)
            THEN [store |-> Rollback(st, updated), returned |-> FALSE, raised |-> TRUE]
        ELSE [store |-> updated, returned |-> TRUE, raised |-> FALSE]

\* ----------------------------------------------------------------- actions

Init ==
    /\ store = [i \in Ids |-> NoRecord]
    /\ usedIds = {}
    /\ req = IdleRequest
    /\ prev = NoHistory
    /\ batch = IdleBatch
    /\ dup = IdleDup
    /\ rng = 0
    /\ gen = [w \in Workers |-> IdleCall]
    /\ seen = NoCall
    /\ op = NoOp

\* POST /upload with a valid image: the record is created completed.
UploadImage(id, v) ==
    /\ NoAnswerPending
    /\ id \notin usedIds
    /\ store' = [store EXCEPT ![id] = CompletedRecord(v)]
    /\ usedIds' = usedIds \cup {id}
    /\ prev' = NoHistory
    /\ UNCHANGED req
    /\ UNCHANGED serviceVars

\* A record added with the column defaults (status pending).
CreateRecord(id, v) ==
    /\ NoAnswerPending
    /\ id \notin usedIds
    /\ store' = [store EXCEPT ![id] = PendingRecord(v)]
    /\ usedIds' = usedIds \cup {id}
    /\ prev' = NoHistory
    /\ UNCHANGED req
    /\ UNCHANGED serviceVars

\* VectorService.store_image_embedding: False for an absent id.
StoreImageEmbedding(id, v) ==
    /\ NoAnswerPending
    /\ store' = IF store[id] = NoRecord THEN store
                ELSE [store EXCEPT ![id] = CompletedRecord(v)]
    /\ prev' = HistoryAfterWrite(store')
    /\ UNCHANGED <<usedIds, req>>
    /\ UNCHANGED serviceVars

\* DELETE /{image_id}: 404 for an absent id.
DeleteImage(id) ==
    /\ NoAnswerPending
    /\ store' = [store EXCEPT ![id] = NoRecord]
    /\ prev' = HistoryAfterWrite(store')
    /\ UNCHANGED <<usedIds, req>>
    /\ UNCHANGED serviceVars

\* A client calls GET /{image_id}/similar.
SimilarRequest(image_id, limit, threshold, fault) ==
    /\ req.pc = "idle"
    /\ req' = StartRequest(store, image_id, limit, threshold, fault)
    /\ prev' = NoHistory
    /\ UNCHANGED <<store, usedIds>>
    /\ UNCHANGED serviceVars

\* session.execute(stmt) answers before the deadline.
RankComplete(fault) ==
    /\ req.pc = "querying"
    /\ \E outcome \in FindSimilarOutcomes(store, req.query_embedding, req.image_id,
                                           req.limit, req.threshold, fault) :
           req' = FinishRequest(req, fault, outcome)
    /\ UNCHANGED <<store, usedIds, prev>>
    /\ UNCHANGED serviceVars

\* The deadline of asyncio.wait_for passes first.
RankTimeout ==
    /\ req.pc = "querying"
    /\ req' = FinishRequest(req, "deadline", TimeoutOutcome)
    /\ prev' = NoHistory
    /\ UNCHANGED <<store, usedIds>>
    /\ UNCHANGED serviceVars

\* The response is delivered; the next request is any request.
SimilarReturn ==
    /\ req.pc = "done"
    /\ req' = IdleRequest
    /\ prev' = NoHistory
    /\ UNCHANGED <<store, usedIds>>
    /\ UNCHANGED serviceVars

\* The client repeats a successful request with identical arguments.
SimilarRepeat(fault) ==
    /\ req.pc = "done"
    /\ req.outcome.kind = "ok"
    /\ req' = StartRequest(store, req.image_id, req.limit, req.threshold, fault)
    /\ prev' = [known |-> TRUE, ids |-> RowIds(req.outcome.rows)]
    /\ UNCHANGED <<store, usedIds>>
    /\ UNCHANGED serviceVars

Next ==
    \/ \E id \in Ids, v \in Vecs : UploadImage(id, v)
    \/ \E id \in Ids, v \in Vecs : CreateRecord(id, v)
    \/ \E id \in Ids, v \in Vecs : StoreImageEmbedding(id, v)
    \/ \E id \in Ids : DeleteImage(id)
    \/ \E id \in Ids, limit \in Limits, threshold \in Thresholds, fault \in Faults :
          SimilarRequest(id, limit, threshold, fault)
    \/ \E fault \in Faults : RankComplete(fault)
    \/ RankTimeout
    \/ SimilarReturn
    \/ \E fault \in Faults : SimilarRepeat(fault)

Spec == Init /\ [][Next]_vars

\* asyncio's timer fires when the statement has not answered by the deadline.
FairSpec == Spec /\ WF_vars(RankTimeout)

\* The variables of the similar-images endpoint and of the other services,
\* as seen from batch_similarity_search.
batchOthers == <<req, prev, dup, rng, gen, seen, op>>

\* An upload committed by another session.  The model takes the writes
\* between two batches: a batch runs against one state of the table.
BatchUpload(id, v) ==
    /\ batch.pc = "idle"
    /\ UploadImage(id, v)

\* batch_similarity_search is called.
BatchStart(query_embeddings, limit, threshold) ==
    /\ batch.pc = "idle"
    /\ batch' = StartBatch(query_embeddings, limit, threshold)
    /\ UNCHANGED <<store, usedIds>>
    /\ UNCHANGED batchOthers

\* for embedding in query_embeddings: await find_similar_images(...)
BatchRank(fault) ==
    /\ batch.pc = "running"
    /\ Len(batch.results) < Len(batch.query_embeddings)
    /\ \E outcome \in SubQueryOutcomes(store,
                        batch.query_embeddings[Len(batch.results) + 1],
                        batch.limit, batch.threshold, fault) :
          batch' = BatchAfter(batch, outcome)
    /\ UNCHANGED <<store, usedIds>>
    /\ UNCHANGED batchOthers

\* The loop is over: return results.
BatchReturn ==
    /\ batch.pc = "running"
    /\ Len(batch.results) = Len(batch.query_embeddings)
    /\ batch' = ReturnBatch(batch)
    /\ UNCHANGED <<store, usedIds>>
    /\ UNCHANGED batchOthers

\* The caller has taken the list or the exception.
BatchDone ==
    /\ batch.pc \in {"returned", "raised"}
    /\ batch' = IdleBatch
    /\ UNCHANGED <<store, usedIds>>
    /\ UNCHANGED batchOthers

BatchNext ==
    \/ \E id \in Ids, v \in BatchStoreVecs : BatchUpload(id, v)
    \/ \E query_embeddings \in BatchQueries, limit \in BatchLimits,
          threshold \in BatchThresholds :
          BatchStart(query_embeddings, limit, threshold)
    \/ \E fault \in BatchFaults : BatchRank(fault)
    \/ BatchReturn
    \/ BatchDone

BatchSpec == Init /\ [][BatchNext]_vars

dupOthers == <<req, prev, batch, rng, gen, seen, op>>

\* A finished duplicate search holds no reference to the table; the model
\* delivers its answer before it takes the next write of another session.
DupIdle == dup.pc = "idle"

\* Mutant: the search removes the second image of each pair it reports.
DupSearch_Purge(threshold, limit, fault) ==
    /\ DupIdle
    /\ \E outcome \in DuplicateOutcomes(store, threshold, limit, fault) :
          /\ dup' = [pc |-> "done", threshold |-> threshold, limit |-> limit,
                     outcome |-> outcome]
          /\ store' = [id \in Ids |->
                          IF \E k \in 1..Len(outcome.rows) : outcome.rows[k].id2 = id
                              THEN NoRecord ELSE store[id]]
    /\ UNCHANGED usedIds
    /\ UNCHANGED dupOthers

\* find_duplicate_images runs its statement and converts the rows.
DupSearch(threshold, limit, fault) ==
    /\ DupIdle
    /\ \E outcome \in DuplicateOutcomes(store, threshold, limit, fault) :
          dup' = [pc |-> "done", threshold |-> threshold, limit |-> limit,
                  outcome |-> outcome]
    /\ UNCHANGED <<store, usedIds>>
    /\ UNCHANGED dupOthers

\* The caller has taken the list or the exception.
DupDone ==
    /\ dup.pc = "done"
    /\ dup' = IdleDup
    /\ UNCHANGED <<store, usedIds>>
    /\ UNCHANGED dupOthers

DupNext ==
    \/ \E id \in Ids, v \in Vecs : DupIdle /\ UploadImage(id, v)
    \/ \E id \in Ids, v \in Vecs : DupIdle /\ CreateRecord(id, v)
    \/ \E id \in Ids, v \in Vecs : DupIdle /\ StoreImageEmbedding(id, v)
    \/ \E id \in Ids : DupIdle /\ DeleteImage(id)
    \/ \E threshold \in DupThresholds, limit \in Limits, fault \in Faults :
          DupSearch(threshold, limit, fault)
    \/ DupDone

DupSpec == Init /\ [][DupNext]_vars

genOthers == <<store, usedIds, req, prev, batch, dup, op>>

\* generate_mock_embedding is called: the three digests, and
\* random.seed(combined_hash).
GenCall(w, content, filename) ==
    /\ gen[w].pc = "idle"
    /\ gen' = [gen EXCEPT ![w] =
                 [IdleCall EXCEPT !.pc = "loop", !.content = content,
                                  !.filename = filename,
                                  !.combined_hash = CombinedHash(content, filename)]]
    /\ rng' = Reseed(rng, StringSeed(CombinedHash(content, filename)))
    /\ seen' = Disturbed(content, filename)
    /\ UNCHANGED genOthers

\* random.seed(int(combined_hash[:8], 16) + i + seed_offset)
GenSeed(w) ==
    /\ gen[w].pc = "loop"
    /\ ~LoopOver(gen[w].i)
    /\ rng' = Reseed(rng, DimensionSeed(gen[w].combined_hash, gen[w].i))
    /\ gen' = [gen EXCEPT ![w].pc = "draw"]
    /\ UNCHANGED seen
    /\ UNCHANGED genOthers

\* value = random.uniform(-1, 1); embedding.append(value)
GenDraw(w) ==
    /\ gen[w].pc = "draw"
    /\ gen' = [gen EXCEPT ![w].pc = "loop", ![w].i = @ + 1,
                          ![w].embedding = Append(@, Uniform(rng))]
    /\ rng' = Advance(rng)
    /\ UNCHANGED seen
    /\ UNCHANGED genOthers

\* The loop is over: the norm, the division, return embedding.
GenNormalize(w) ==
    /\ gen[w].pc = "loop"
    /\ LoopOver(gen[w].i)
    /\ gen' = [gen EXCEPT ![w].pc = "done",
                          ![w].result = Normalized(gen[w].embedding)]
    /\ UNCHANGED <<rng, seen>>
    /\ UNCHANGED genOthers

\* The caller has taken the vector.
GenReturn(w) ==
    /\ gen[w].pc = "done"
    /\ seen' \in Remembered(gen[w])
    /\ gen' = [gen EXCEPT ![w] = IdleCall]
    /\ UNCHANGED rng
    /\ UNCHANGED genOthers

\* Any other code of the process seeds or draws from the generator.
OtherRandomUse(state) ==
    /\ rng' = state
    /\ rng' # rng
    /\ seen' = [seen EXCEPT !.disturbed = seen.known]
    /\ UNCHANGED gen
    /\ UNCHANGED genOthers

\* No call is running: generate_mock_embedding has no await, so the calls of
\* one event loop run one after the other.
NoCallRunning == \A w \in Workers : gen[w].pc = "idle"

GenNext ==
    \/ \E w \in Workers, content \in Contents, filename \in Filenames :
          NoCallRunning /\ GenCall(w, content, filename)
    \/ \E w \in Workers : GenSeed(w)
    \/ \E w \in Workers : GenDraw(w)
    \/ \E w \in Workers : GenNormalize(w)
    \/ \E w \in Workers : GenReturn(w)
    \/ \E state \in GeneratorStates : NoCallRunning /\ OtherRandomUse(state)

GenSpec == Init /\ [][GenNext]_vars

\* The calls of two threads of one process: their steps interleave, and the
\* generator of `random` is the one of the module.  No history is kept, and
\* nothing but the two calls uses the generator.
GenThreadNext ==
    \/ \E w \in Workers, content \in Contents, filename \in Filenames :
          GenCall(w, content, filename)
    \/ \E w \in Workers : GenSeed(w)
    \/ \E w \in Workers : GenDraw(w)
    \/ \E w \in Workers : GenNormalize(w)
    \/ \E w \in Workers : GenReturn(w) /\ seen' = seen

GenThreadSpec == Init /\ [][GenThreadNext]_vars

\* The writes to the images table alone.
StoreNext ==
    \/ \E id \in Ids, v \in Vecs : UploadImage(id, v)
    \/ \E id \in Ids, v \in Vecs : CreateRecord(id, v)
    \/ \E id \in Ids, v \in Vecs : StoreImageEmbedding(id, v)
    \/ \E id \in Ids : DeleteImage(id)

StoreSpec == Init /\ [][StoreNext]_vars

\* The variables ImageProcessingService's static functions do not touch.
processOthers == <<store, usedIds, req, prev, batch, dup, rng, gen, seen>>

\* A caller runs validate_image on a file.
ValidateCall(content, content_type, filename) ==
    /\ op' = [name |-> "validate_image", content |-> content,
              content_type |-> content_type, filename |-> filename,
              result |-> ValidateImage(content, content_type, filename)]
    /\ UNCHANGED processOthers

\* A caller runs extract_image_metadata on some bytes.
ExtractCall(content) ==
    /\ op' = [name |-> "extract_image_metadata", content |-> content,
              result |-> ExtractImageMetadata(content)]
    /\ UNCHANGED processOthers

\* A caller runs process_image on a file.
ProcessCall(content, filename, content_type, embedding) ==
    /\ op' = [name |-> "process_image", content |-> content,
              content_type |-> content_type, filename |-> filename,
              result |-> ProcessImage(content, filename, content_type, embedding)]
    /\ UNCHANGED processOthers

ProcessNext ==
    \/ \E content \in FileContents, content_type \in ContentTypes,
          filename \in UploadFilenames :
          ValidateCall(content, content_type, filename)
    \/ \E content \in FileContents : ExtractCall(content)
    \/ \E content \in FileContents, content_type \in ContentTypes,
          filename \in UploadFilenames, embedding \in Vecs :
          ProcessCall(content, filename, content_type, embedding)

ProcessSpec == Init /\ [][ProcessNext]_vars

\* The variables the calls below leave alone.
apiOthers == <<req, prev, batch, dup, rng, gen, seen>>

\* POST /upload, from file.read() to the response: process_image, then
\* session.add, commit and refresh.  An HTTPException of process_image is
\* re-raised; any other exception is answered by rollback and 500.
ApiUpload(id, file, fault) ==
    /\ id \notin usedIds
    /\ LET p == ProcessImage(file.content, file.filename, file.content_type,
                             MockEmbedding(file))
           call == [name |-> "upload_image", image_id |-> NoId, file |-> file,
                    invoked |-> p.invoked, status_code |-> 0]
       IN  IF p.raised
               THEN /\ op' = [call EXCEPT !.status_code = p.exception.status_code]
                    /\ UNCHANGED <<store, usedIds>>
           ELSE IF fault # "none"
               THEN /\ op' = [call EXCEPT !.status_code = HTTP_500_INTERNAL_SERVER_ERROR]
                    /\ store' = Rollback(store, [store EXCEPT ![id] =
                                    ImageRecord(file, p.embedding, p.metadata)])
                    /\ UNCHANGED usedIds
           ELSE /\ op' = [call EXCEPT !.status_code = HTTP_201_CREATED, !.image_id = id]
                /\ store' = [store EXCEPT ![id] = ImageRecord(file, p.embedding, p.metadata)]
                /\ usedIds' = usedIds \cup {id}
    /\ UNCHANGED apiOthers

\* GET /{image_id}: the record, whatever its status, or 404.
ApiGet(image_id, fault) ==
    /\ op' = [name |-> "get_image_metadata", image_id |-> image_id,
              status_code |-> IF fault # "none" THEN HTTP_500_INTERNAL_SERVER_ERROR
                              ELSE IF store[image_id] = NoRecord THEN HTTP_404_NOT_FOUND
                              ELSE HTTP_200_OK,
              body |-> IF fault # "none" THEN NoRecord ELSE store[image_id]]
    /\ UNCHANGED <<store, usedIds>>
    /\ UNCHANGED apiOthers

\* DELETE /{image_id}: 404 for an absent id, else delete and commit; a
\* store error is answered by rollback and 500.
ApiDelete(image_id, fault) ==
    /\ LET call == [name |-> "delete_image", image_id |-> image_id,
                    fault |-> fault, status_code |-> 0]
       IN  IF fault # "none"
               THEN /\ op' = [call EXCEPT !.status_code = HTTP_500_INTERNAL_SERVER_ERROR]
                    /\ store' = IF store[image_id] = NoRecord THEN store
                                ELSE Rollback(store, AfterDelete(store, image_id))
           ELSE IF store[image_id] = NoRecord
               THEN /\ op' = [call EXCEPT !.status_code = HTTP_404_NOT_FOUND]
                    /\ store' = store
           ELSE /\ op' = [call EXCEPT !.status_code = HTTP_204_NO_CONTENT]
                /\ store' = AfterDelete(store, image_id)
    /\ UNCHANGED usedIds
    /\ UNCHANGED apiOthers

\* VectorService.store_image_embedding, from its select to its return.
StoreEmbeddingCall(image_id, embedding, fault) ==
    /\ LET result == StoreImageEmbeddingResult(store, image_id, embedding, fault)
       IN  /\ op' = [name |-> "store_image_embedding", image_id |-> image_id,
                     embedding |-> embedding, returned |-> result.returned,
                     raised |-> result.raised]
           /\ store' = result.store
    /\ UNCHANGED usedIds
    /\ UNCHANGED apiOthers

\* GET /{image_id}/similar, run without another session in between: the
\* embedding read, then the ranking statement (on which the fault falls).
ApiSimilar(image_id, limit, threshold, fault) ==
    /\ LET r == StartRequest(store, image_id, limit, threshold, "none")
           call == [name |-> "get_similar_images", image_id |-> image_id,
                    response |-> r.response]
       IN  IF r.pc = "done" THEN op' = call
           ELSE \E outcome \in FindSimilarOutcomes(store, r.query_embedding, image_id,
                                                    limit, threshold, fault) :
                    op' = [call EXCEPT !.response = ResponseOf(outcome)]
    /\ UNCHANGED <<store, usedIds>>
    /\ UNCHANGED apiOthers

\* VectorService.find_duplicate_images, from its statement to its return.
ApiDuplicates(threshold, limit, fault) ==
    /\ \E outcome \in DuplicateOutcomes(store, threshold, limit, fault) :
          op' = [name |-> "find_duplicate_images", image_id |-> NoId,
                 outcome |-> outcome]
    /\ UNCHANGED <<store, usedIds>>
    /\ UNCHANGED apiOthers

\* The writes to the table, call by call, with records of either status.
ApiNext ==
    \/ \E id \in Ids, file \in UploadFiles, fault \in Faults : ApiUpload(id, file, fault)
    \/ \E id \in Ids, v \in PendingVecs : CreateRecord(id, v)
    \/ \E id \in Ids, fault \in Faults : ApiDelete(id, fault)
    \/ \E id \in Ids, embedding \in StoredVecs \cup WrongVecs, fault \in Faults :
          StoreEmbeddingCall(id, embedding, fault)

ApiSpec == Init /\ [][ApiNext]_vars

\* Uploads and deletes, and the calls that look records up.
LookupNext ==
    \/ \E id \in Ids, file \in UploadFiles, fault \in Faults : ApiUpload(id, file, fault)
    \/ \E id \in Ids, fault \in Faults : ApiDelete(id, fault)
    \/ \E id \in Ids, fault \in Faults : ApiGet(id, fault)
    \/ \E id \in Ids, threshold \in {0 - SCALE, SIMILARITY_THRESHOLD}, fault \in Faults :
          ApiSimilar(id, MaxLimit, threshold, fault)
    \/ \E threshold \in {DUPLICATE_THRESHOLD, 0}, fault \in Faults :
          ApiDuplicates(threshold, MaxLimit, fault)

LookupSpec == Init /\ [][LookupNext]_vars

\* No similarity operation is in flight.
ReadsIdle == req.pc = "idle" /\ batch.pc = "idle" /\ dup.pc = "idle"

\* The similarity operations, one at a time.  Uploads and deletes of other
\* sessions change the table between the two reads of a similar-images
\* request and between two operations.
ReadOnlyNext ==
    \/ \E id \in Ids, v \in BatchStoreVecs : BatchUpload(id, v)
    \/ \E id \in Ids : batch.pc = "idle" /\ DeleteImage(id)
    \/ \E id \in Ids, limit \in BatchLimits,
          threshold \in {0 - SCALE, SIMILARITY_THRESHOLD}, fault \in Faults :
          ReadsIdle /\ SimilarRequest(id, limit, threshold, fault)
    \/ \E fault \in Faults : RankComplete(fault)
    \/ RankTimeout
    \/ SimilarReturn
    \/ \E query_embeddings \in BatchQueries, limit \in BatchLimits,
          threshold \in BatchThresholds :
          ReadsIdle /\ BatchStart(query_embeddings, limit, threshold)
    \/ \E fault \in BatchFaults : BatchRank(fault)
    \/ BatchReturn
    \/ BatchDone
    \/ \E threshold \in DupThresholds, fault \in Faults :
          ReadsIdle /\ DupSearch(threshold, MaxLimit, fault)
    \/ DupDone

ReadOnlySpec == Init /\ [][ReadOnlyNext]_vars

TypeOK ==
    /\ \A i \in Ids : store[i] # NoRecord =>
          /\ store[i].status \in {"pending", "completed"}
          /\ Len(store[i].embedding_vector) = EMBEDDING_DIMENSION
    /\ usedIds \subseteq Ids
    /\ req.pc \in {"idle", "querying", "done"}
    /\ req.fault \in Faults \cup {"deadline"}

\* ------------------------------------------------------- claims: vocabulary

\* find_similar_images has returned its list to the endpoint.
RankReturned == req.pc = "done" /\ req.outcome.kind = "ok"

\* find_similar_images has ended, with a list or with an exception.
RankEnded == req.pc = "done" /\ req.outcome.kind # "none"

ReturnedRows == req.outcome.rows

\* The score of stored record i against the query of the request.
ScoreOf(i) == SimilarityScore(store[i].embedding_vector, req.query_embedding)

Present(i) == store[i] # NoRecord

\* A step that starts a request: SimilarRequest or SimilarRepeat.
StartStep == req.pc # "querying" /\ req'.pc # "idle" /\ req' # req

\* (C1) Every row rank returns has a similarity_score >= threshold, and that
\* score is the score of the stored record: no candidate below the threshold
\* is in the result, at any position.
C1_ThresholdExclusion ==
    RankReturned =>
        \A k \in 1..Len(ReturnedRows) :
            /\ ReturnedRows[k].similarity_score >= req.threshold
            /\ Present(ReturnedRows[k].id)
            /\ ScoreOf(ReturnedRows[k].id) = ReturnedRows[k].similarity_score

\* A result with a row in it, while a completed record other than the query
\* image scores below the threshold and was dropped.
C1_Witness ==
    /\ RankReturned
    /\ ReturnedRows # <<>>
    /\ \E i \in Ids : /\ Present(i) /\ IsCompleted(store[i]) /\ i # req.image_id
                       /\ ScoreOf(i) < req.threshold

\* (C2) With exclude_id set, no returned row has the id exclude_id; a store
\* whose only completed record is the query image, queried with that record's
\* embedding and id, returns the empty list.
C2_SelfExclusion ==
    RankReturned =>
        /\ \A k \in 1..Len(ReturnedRows) : ReturnedRows[k].id # req.image_id
        /\ ({i \in Ids : Present(i) /\ IsCompleted(store[i])} = {req.image_id}
                => ReturnedRows = <<>>)

\* The query image is itself completed and meets the threshold, the limit
\* admits a row, and rank has returned.
C2_Witness ==
    /\ RankReturned
    /\ req.limit > 0
    /\ Present(req.image_id) /\ IsCompleted(store[req.image_id])
    /\ store[req.image_id].embedding_vector = req.query_embedding
    /\ ScoreOf(req.image_id) >= req.threshold

\* (C3) Every row rank returns refers to a record that is in the store with
\* status completed when the query runs; pending records are never returned.
C3_CompletedOnly ==
    RankReturned =>
        \A k \in 1..Len(ReturnedRows) :
            Present(ReturnedRows[k].id) /\ store[ReturnedRows[k].id].status = "completed"

\* Rank returned fewer rows than the limit while a pending record other than
\* the query image meets the threshold.
C3_Witness ==
    /\ RankReturned
    /\ Len(ReturnedRows) < req.limit
    /\ \E i \in Ids : /\ Present(i) /\ store[i].status = "pending" /\ i # req.image_id
                       /\ ScoreOf(i) >= req.threshold

\* (C4) The list rank returns is ordered by similarity descending.
C4_OrderedDescending ==
    RankReturned =>
        \A i, j \in 1..Len(ReturnedRows) :
            i < j => ReturnedRows[i].similarity_score >= ReturnedRows[j].similarity_score

\* A result of two rows of different scores.
C4_Witness ==
    /\ RankReturned
    /\ Len(ReturnedRows) >= 2
    /\ ReturnedRows[1].similarity_score > ReturnedRows[2].similarity_score

\* (C5) Two successive rank calls with identical arguments against an unchanged
\* store return identical sequences of ids, ties included.
C5_OrderingStability ==
    (RankReturned /\ prev.known) => RowIds(ReturnedRows) = prev.ids

\* (C6) Rank never returns more than `limit` rows, and with limit = 0 a rank
\* that the store answers returns the empty list as a success.
C6_LimitCap ==
    /\ RankReturned => Len(ReturnedRows) <= req.limit
    /\ (RankEnded /\ req.limit = 0 /\ req.fault = "none") =>
           /\ req.outcome = Ok(<<>>)
           /\ req.response = OkResponse(<<>>)

\* limit = 0 answered with success while the store holds eligible candidates.
C6_Witness ==
    /\ RankReturned
    /\ req.limit = 0
    /\ Candidates(store, req.query_embedding, req.image_id, req.threshold) # {}

\* (C7) A similarity query for an id that is absent from the store, or present
\* but not completed, is never answered with success, and is answered 404
\* whenever the embedding read itself succeeds.
C7_NotFound ==
    [][(StartStep /\ ~(Present(req'.image_id) /\ store[req'.image_id].status = "completed"))
        => /\ req'.pc = "done"
           /\ req'.response.status_code # HTTP_200_OK
           /\ req'.outcome.kind = "none"
           /\ (req'.fault = "none" => req'.response.status_code = HTTP_404_NOT_FOUND)]_vars

\* A query for a pending record was answered 404.
C7_Witness ==
    /\ req.pc = "done"
    /\ Present(req.image_id) /\ store[req.image_id].status = "pending"
    /\ req.response.status_code = HTTP_404_NOT_FOUND

\* (C8) A store fault or a deadline during rank makes rank raise, and the
\* endpoint answers 500: never 404, never a success with an empty list; a
\* success is answered only when nothing failed.
C8_FaultSurfaced ==
    /\ (RankEnded /\ req.fault # "none") =>
           /\ req.outcome.kind = "RuntimeError"
           /\ req.response.status_code = HTTP_500_INTERNAL_SERVER_ERROR
           /\ req.response.status_code \notin {HTTP_200_OK, HTTP_404_NOT_FOUND}
    /\ (req.pc = "done" /\ req.outcome.kind = "RuntimeError") =>
           req.response.status_code = HTTP_500_INTERNAL_SERVER_ERROR
    /\ (req.pc = "done" /\ req.response.status_code = HTTP_200_OK) =>
           req.fault = "none" /\ req.outcome.kind = "ok"

\* The store failed the ranking statement of a request with a valid limit
\* while it held eligible candidates.
C8_Witness ==
    /\ RankEnded
    /\ req.fault = "database"
    /\ req.limit > 0
    /\ Candidates(store, req.query_embedding, req.image_id, req.threshold) # {}

\* The answers a caller must tell a timeout from.
OtherAnswers ==
    {NotFoundResponse, ErrorResponse("database"), ErrorResponse("unexpected")}

\* (C9) Rank is bounded by its deadline: a statement that is running ends,
\* with an answer or with the deadline; when the deadline passes rank
\* raises the timeout failure and returns no rows, the endpoint's answer
\* differs from the answers for a store fault and for not found, and no
\* request that did not time out gets the timeout answer.
C9_TimeoutBounded ==
    /\ [](req.fault = "deadline" =>
            /\ req.outcome = Failure("timeout")
            /\ req.outcome.rows = <<>>
            /\ req.response = ErrorResponse("timeout")
            /\ req.response \notin OtherAnswers)
    /\ []((req.pc = "done" /\ req.fault # "deadline") =>
            req.response # ErrorResponse("timeout"))
    /\ ((req.pc = "querying") ~> (req.pc = "done"))

\* The deadline passed on a statement that had eligible candidates to return.
C9_Witness ==
    /\ req.pc = "done"
    /\ req.fault = "deadline"
    /\ req.limit > 0
    /\ Candidates(store, req.query_embedding, req.image_id, req.threshold) # {}

\* limit < 0, or threshold outside [0, 1].
Malformed(r) == r.limit < 0 \/ r.threshold < 0 \/ r.threshold > SCALE

\* (C10) A similarity query with a negative limit or a threshold outside [0, 1]
\* is rejected with a validation failure - not a success, not NotFound, not
\* the 500 of a store fault or timeout - before any store query is run.
C10_ValidationFailure ==
    (req.pc = "done" /\ Malformed(req)) =>
        /\ req.outcome.kind = "none"
        /\ req.response.status_code \notin
              {HTTP_200_OK, HTTP_404_NOT_FOUND, HTTP_500_INTERNAL_SERVER_ERROR}

\* --------------------------------------------------- claims: batch search

\* `rows` is a row sequence find_similar_images returns for the query, with
\* no image excluded: the candidates' own rows, each once, in descending
\* order, `limit` of them or all, none left out that scores higher than the
\* last one returned.  These are the members of RankRows for a limit >= 0.
IsRankResult(st, query_embedding, limit, threshold, rows) ==
    \E cands \in {Candidates(st, query_embedding, NoId, threshold)} :
    \E ids \in {{rows[k].id : k \in 1..Len(rows)}} :
        /\ Len(rows) = IF Cardinality(cands) < limit
                           THEN Cardinality(cands) ELSE limit
        /\ ids \subseteq cands
        /\ Cardinality(ids) = Len(rows)
        /\ \A k \in 1..Len(rows) : rows[k] = Row(st, query_embedding, rows[k].id)
        /\ OrderedDesc(rows)
        /\ \A c \in cands \ ids : \A k \in {Len(rows)} \ {0} :
              Row(st, query_embedding, c).similarity_score
                  <= rows[k].similarity_score

\* C11: when every sub-query of batch_similarity_search succeeds, the list
\* it returns is as long as query_embeddings, and its i-th element is a row
\* sequence find_similar_images returns for query_embeddings[i] with the
\* batch's limit and threshold: the input order is the output order.
C11_BatchOrder ==
    batch.pc = "returned" =>
        /\ batch.value.returned
        /\ Len(batch.value.results) = Len(batch.query_embeddings)
        /\ \A i \in 1..Len(batch.query_embeddings) :
              IsRankResult(store, batch.query_embeddings[i], batch.limit,
                           ThresholdOrDefault(batch.threshold),
                           batch.value.results[i])

\* A batch of two different queries returned two different non-empty lists.
C11_Witness ==
    /\ batch.pc = "returned"
    /\ Len(batch.query_embeddings) = 2
    /\ batch.query_embeddings[1] # batch.query_embeddings[2]
    /\ batch.value.results[1] # <<>>
    /\ batch.value.results[2] # <<>>
    /\ batch.value.results[1] # batch.value.results[2]

\* C12: batch_similarity_search is fail-fast.  When the find_similar_images
\* call for query_embeddings[k] fails, the batch raises that failure, it has
\* made exactly k calls, it returns no list, and it makes no further call.
C12_FailFast ==
    /\ [](batch.last.kind = "RuntimeError" =>
            /\ batch.pc = "raised"
            /\ batch.error = batch.last.error
            /\ batch.started = Len(batch.results) + 1
            /\ batch.value = NoReturn)
    /\ [][batch.pc = "raised" => batch' = IdleBatch]_vars

\* A sub-query failed while later queries of the batch were still to run.
C12_Witness ==
    /\ batch.pc = "raised"
    /\ batch.started < Len(batch.query_embeddings)
    /\ batch.value = NoReturn

\* ----------------------------------------------- claims: duplicate search

DupReturned == dup.pc = "done" /\ dup.outcome.kind = "ok"

DupRows == dup.outcome.rows

\* The unordered pairs of distinct completed records at least as similar as
\* the threshold, each as the set of its two ids.
QualifyingPairs(st, threshold) ==
    {{a, b} : <<a, b>> \in
        {q \in Ids \X Ids :
            /\ q[1] # q[2]
            /\ st[q[1]] # NoRecord /\ st[q[1]].status = "completed"
            /\ st[q[2]] # NoRecord /\ st[q[2]].status = "completed"
            /\ SimilarityScore(st[q[1]].embedding_vector,
                               st[q[2]].embedding_vector) >= threshold}}

PairOf(row) == {row.id1, row.id2}

SimilarityOfPair(st, pair) ==
    LET a == CHOOSE x \in pair : TRUE
        b == CHOOSE x \in pair : x # a
    IN  SimilarityScore(st[a].embedding_vector, st[b].embedding_vector)

\* C13: find_duplicate_images never returns a pair of equal ids, never
\* returns two pairs with the same unordered id set, and every returned pair
\* (id1, id2, s) has id1 < id2.
C13_PairUniqueness ==
    DupReturned =>
        /\ \A k \in 1..Len(DupRows) :
              /\ DupRows[k].id1 # DupRows[k].id2
              /\ DupRows[k].id1 < DupRows[k].id2
        /\ \A k, l \in 1..Len(DupRows) :
              k # l => PairOf(DupRows[k]) # PairOf(DupRows[l])

\* A search returned two pairs out of three completed records.
C13_Witness ==
    /\ DupReturned
    /\ Len(DupRows) >= 2
    /\ \A i \in 1..3 : store[i] # NoRecord /\ store[i].status = "completed"

\* C14: find_duplicate_images(threshold, limit) returns the first `limit`
\* entries, by similarity descending, of the unordered pairs of distinct
\* completed records whose similarity is >= threshold.  Every returned pair
\* is such a pair and carries its similarity; the pairs are in descending
\* order and at most `limit`; a pair left out is no more similar than any
\* pair returned; and when fewer than `limit` pairs are returned, every such
\* pair is returned.
C14_TopPairs ==
    DupReturned =>
        LET qualifying == QualifyingPairs(store, dup.threshold)
            returned == {PairOf(DupRows[k]) : k \in 1..Len(DupRows)}
        IN  /\ Len(DupRows) <= dup.limit
            /\ \A k \in 1..Len(DupRows) :
                  /\ PairOf(DupRows[k]) \in qualifying
                  /\ DupRows[k].similarity
                        = SimilarityOfPair(store, PairOf(DupRows[k]))
                  /\ DupRows[k].similarity >= dup.threshold
            /\ \A k, l \in 1..Len(DupRows) :
                  k < l => DupRows[k].similarity >= DupRows[l].similarity
            /\ \A pair \in qualifying \ returned :
                  \A k \in 1..Len(DupRows) :
                      SimilarityOfPair(store, pair) <= DupRows[k].similarity
            /\ Len(DupRows) < dup.limit => returned = qualifying

\* The cap left out a qualifying pair less similar than the pairs returned.
C14_Witness ==
    /\ DupReturned
    /\ Len(DupRows) = dup.limit
    /\ dup.limit >= 1
    /\ \E pair \in QualifyingPairs(store, dup.threshold) :
          /\ \A k \in 1..Len(DupRows) : pair # PairOf(DupRows[k])
          /\ SimilarityOfPair(store, pair) < DupRows[1].similarity

\* ------------------------------------------- claims: embedding generation

Finished(w) == gen[w].pc = "done"

\* C15: generate_mock_embedding is deterministic.  A call with the content
\* and the filename of an earlier call returns the vector that call
\* returned, element by element, whatever calls with other inputs and
\* whatever other uses of the generator came before or between the two.
C15_Deterministic ==
    \A w \in Workers :
        (Finished(w) /\ SameInputs(gen[w])) => gen[w].result = seen.vector

\* A call with a non-zero vector repeated an earlier call after the generator
\* had been used for something else.
C15_Witness ==
    \E w \in Workers :
        /\ Finished(w)
        /\ SameInputs(gen[w])
        /\ seen.disturbed
        /\ gen[w].result # <<0, 0>>

\* The raw values of a call no step of which is interleaved with anything:
\* the loop from dimension i on, the generator being in `state`.
RECURSIVE RawAlone(_, _, _, _)
RawAlone(combined_hash, i, embedding, state) ==
    IF LoopOver(i) THEN embedding
    ELSE LET seeded == Reseed(state, DimensionSeed(combined_hash, i))
         IN  RawAlone(combined_hash, i + 1,
                      Append(embedding, Uniform(seeded)), Advance(seeded))

\* The vector a call returns when it runs alone in a fresh process.
GenerateAlone(content, filename) ==
    LET combined_hash == CombinedHash(content, filename)
    IN  Normalized(RawAlone(combined_hash, 0, <<>>,
                            Reseed(0, StringSeed(combined_hash))))

\* C16: generate_mock_embedding has no shared mutable state: of two calls on
\* different workers, their steps interleaved, each returns the vector it
\* returns when run alone.
C16_Isolation ==
    \A w \in Workers :
        Finished(w) => gen[w].result = GenerateAlone(gen[w].content,
                                                    gen[w].filename)

\* C17: the vector generate_mock_embedding returns has exactly
\* EMBEDDING_DIMENSION elements, for every content and filename.
C17_Dimension ==
    \A w \in Workers : Finished(w) => Len(gen[w].result) = EMBEDDING_DIMENSION

\* A call has returned a vector, every component of which was drawn.
C17_Witness ==
    \E w \in Workers :
        /\ Finished(w)
        /\ gen[w].i = EMBEDDING_DIMENSION
        /\ \A k \in 1..Len(gen[w].result) : gen[w].result[k] # 0

\* The square of the L2 norm of a returned vector, in units of 1/UNIT^2.
NormSquared(vector) == Dot(vector, vector)

\* abs(norm - 1.0) < 1e-3
TOLERANCE_INVERSE == 1000
NearOne(vector) ==
    LET slack == UNIT \div TOLERANCE_INVERSE
    IN  /\ NormSquared(vector) > (UNIT - slack) * (UNIT - slack)
        /\ NormSquared(vector) < (UNIT + slack) * (UNIT + slack)

\* C18: generate_mock_embedding unit-normalizes its raw vector.  When the
\* raw norm is > 0, every component is the raw component divided by the
\* norm, and the L2 norm of the returned vector is within 1e-3 of 1.0; when
\* the raw norm is 0, the raw vector is returned as it is.
C18_Normalized ==
    \A w \in Workers :
        Finished(w) =>
            IF Dot(gen[w].embedding, gen[w].embedding) > 0
                THEN /\ NearOne(gen[w].result)
                     /\ \A k \in 1..Len(gen[w].result) :
                           /\ gen[w].result[k] * gen[w].embedding[k] >= 0
                           /\ gen[w].result[k] * RawNorm(gen[w].embedding)
                                 <= gen[w].embedding[k] * UNIT * ROOT_UNIT
                           /\ (gen[w].result[k] + 1) * RawNorm(gen[w].embedding)
                                 > gen[w].embedding[k] * UNIT * ROOT_UNIT
                ELSE gen[w].result = gen[w].embedding

\* After a call whose raw vector was zero and came back unchanged, a call
\* returned a raw vector of irrational norm divided by that norm.
C18_Witness ==
    \E w \in Workers :
        /\ Finished(w)
        /\ \A k \in 1..Len(gen[w].embedding) : gen[w].embedding[k] # 0
        /\ NearOne(gen[w].result)
        /\ NormSquared(gen[w].result) # UNIT * UNIT
        /\ seen.known
        /\ seen.vector = [k \in 1..EMBEDDING_DIMENSION |-> 0]

\* C19: for one content and two different filenames, generate_mock_embedding
\* returns two different vectors of the same length.
C19_Sensitivity ==
    \A w \in Workers :
        (/\ Finished(w)
         /\ seen.known
         /\ seen.content = gen[w].content
         /\ seen.filename # gen[w].filename)
        => /\ Len(gen[w].result) = Len(seen.vector)
           /\ gen[w].result # seen.vector

\* ------------------------------------------------ claims: record lifecycle

Exists(st, id) == st[id] # NoRecord

HasStatus(st, id, status) == Exists(st, id) /\ st[id].status = status

\* The record holds an embedding of the configured dimension and its
\* processed timestamp.
FullyProcessed(r) ==
    /\ Len(r.embedding_vector) = EMBEDDING_DIMENSION
    /\ r.processed_timestamp

Extracted == op.name = "extract_image_metadata"

\* C25: extract_image_metadata returns for every content and never raises;
\* for bytes PIL cannot decode it returns the fallback dictionary (format
\* "unknown", width 0, height 0, no transparency, an extraction_error
\* entry); a dictionary without extraction_error holds the format, mode,
\* width and height of the image decoded from the bytes.
C25_MetadataNeverRaises ==
    Extracted =>
        /\ ~op.result.raised
        /\ op.content.image = NoImage =>
              /\ op.result.value.format = "unknown"
              /\ op.result.value.width = 0
              /\ op.result.value.height = 0
              /\ ~op.result.value.has_transparency
              /\ "extraction_error" \in DOMAIN op.result.value
        /\ (~op.result.raised /\ "extraction_error" \notin DOMAIN op.result.value) =>
              /\ op.content.image # NoImage
              /\ op.result.value.format = op.content.image.format
              /\ op.result.value.mode = op.content.image.mode
              /\ op.result.value.width = op.content.image.width
              /\ op.result.value.height = op.content.image.height

\* The function has answered for bytes that are no image (the empty file
\* among them) and the answer is the fallback dictionary.
C25_Witness ==
    /\ Extracted
    /\ op.content.length = 0
    /\ op.content.image = NoImage
    /\ ~op.result.raised
    /\ op.result.value = FallbackMetadata

Validated == op.name = "validate_image"

Oversized(content) == content.length > MAX_FILE_SIZE

\* C28: validate_image checks size, content type, extension and
\* decodability in this order and reports the first check that fails: 413
\* for an oversized file whatever else is wrong with it, otherwise 400 with
\* the message of the content type before that of the extension before
\* that of the image; it returns without an exception exactly when all four
\* checks pass.
C28_ValidationOrder ==
    Validated =>
        LET content == op.content
            content_type == op.content_type
            filename == op.filename
            error == op.result
        IN  /\ Oversized(content) =>
                  /\ error.raised
                  /\ error.status_code = HTTP_413_REQUEST_ENTITY_TOO_LARGE
            /\ (~Oversized(content) /\ ~StartsWithImage(content_type)) =>
                  /\ error.status_code = HTTP_400_BAD_REQUEST
                  /\ error.detail = "File must be an image"
            /\ (~Oversized(content) /\ StartsWithImage(content_type)
                    /\ ~ExtensionAllowed(filename)) =>
                  /\ error.status_code = HTTP_400_BAD_REQUEST
                  /\ error.detail = "File extension not allowed"
            /\ (~Oversized(content) /\ StartsWithImage(content_type)
                    /\ ExtensionAllowed(filename) /\ ~Verifies(content)) =>
                  /\ error.status_code = HTTP_400_BAD_REQUEST
                  /\ error.detail = "Invalid image file"
            /\ ~error.raised <=>
                  /\ ~Oversized(content)
                  /\ StartsWithImage(content_type)
                  /\ ExtensionAllowed(filename)
                  /\ Verifies(content)

\* A file that fails all four checks at once has been answered with 413.
C28_Witness ==
    /\ Validated
    /\ Oversized(op.content)
    /\ ~StartsWithImage(op.content_type)
    /\ ~ExtensionAllowed(op.filename)
    /\ ~Verifies(op.content)
    /\ op.result.status_code = HTTP_413_REQUEST_ENTITY_TOO_LARGE

\* --------------------------------------------- claims: the endpoints' writes

\* A call has run since the preceding state, and it is a call of `name`.
CallStep(name) == op' # op /\ op'.name = name

\* The ids whose record was created and then deleted.
Deleted(st, used) == {id \in used : st[id] = NoRecord}

\* C21: in every state of the table that upload, store_image_embedding and
\* delete can reach, with store faults and embeddings of a wrong length
\* among their inputs, each record in status 'completed' holds an embedding
\* of exactly EMBEDDING_DIMENSION elements and a processed timestamp.
C21_CompletedInvariant ==
    \A id \in Ids :
        (Exists(store, id) /\ IsCompleted(store[id])) =>
            /\ Len(store[id].embedding_vector) = EMBEDDING_DIMENSION
            /\ store[id].processed_timestamp

\* store_image_embedding was called for a pending record with an embedding
\* of a wrong length and raised; another record is completed.
C21_Witness ==
    /\ op.name = "store_image_embedding"
    /\ op.embedding \in WrongVecs
    /\ op.raised
    /\ HasStatus(store, op.image_id, "pending")
    /\ \E id \in Ids : HasStatus(store, id, "completed")

\* The file of the upload fails validate_image.
FailsValidation(file) ==
    \/ file.content.length > MAX_FILE_SIZE
    \/ ~StartsWithImage(file.content_type)
    \/ ~ExtensionAllowed(file.filename)
    \/ file.content.image = NoImage

\* C22: an upload whose file fails validation (size, content type,
\* extension, decodability, the empty file included) is answered with an
\* error (413 or 400), creates no record and leaves the table as it was;
\* of process_image's steps only validate_image has run, neither
\* extract_image_metadata nor generate_mock_embedding.
C22_RejectedUpload ==
    [][(CallStep("upload_image") /\ FailsValidation(op'.file)) =>
          /\ op'.status_code \in {HTTP_400_BAD_REQUEST, HTTP_413_REQUEST_ENTITY_TOO_LARGE}
          /\ op'.image_id = NoId
          /\ store' = store
          /\ usedIds' = usedIds
          /\ op'.invoked = <<"validate_image">>]_vars

\* The empty file was uploaded to a table that holds a record, and was
\* answered with 400.
C22_Witness ==
    /\ op.name = "upload_image"
    /\ op.file.content.length = 0
    /\ op.status_code = HTTP_400_BAD_REQUEST
    /\ \E id \in Ids : Exists(store, id)

StoredInto(image_id) == CallStep("store_image_embedding") /\ op'.image_id = image_id

\* The columns store_image_embedding assigns.
EmbeddingColumns == {"embedding_vector", "status", "processed_timestamp"}

\* C29: store_image_embedding creates no record: for an absent id it
\* returns False and the table is unchanged.  For an existing id it changes
\* that record only, and of it only the embedding, the status (to
\* 'completed') and the processed timestamp.  When the store fails the call
\* raises and the table is as before the call.
C29_StoreEmbeddingFrame ==
    [][\A id \in Ids : StoredInto(id) =>
          /\ \A j \in Ids : ~Exists(store, j) => ~Exists(store', j)
          /\ \A j \in Ids \ {id} : store'[j] = store[j]
          /\ usedIds' = usedIds
          /\ ~Exists(store, id) => (op'.raised \/ ~op'.returned) /\ store' = store
          /\ op'.raised => store' = store
          /\ (Exists(store, id) /\ ~op'.raised) =>
                /\ op'.returned
                /\ DOMAIN store'[id] = DOMAIN store[id]
                /\ \A column \in DOMAIN store[id] \ EmbeddingColumns :
                      store'[id][column] = store[id][column]
                /\ store'[id].embedding_vector = op'.embedding
                /\ store'[id].status = "completed"
                /\ store'[id].processed_timestamp]_vars

\* store_image_embedding has returned True for an uploaded record: the
\* record holds the embedding of the call and still its filename, and an
\* id without a record is still without one.
C29_Witness ==
    /\ op.name = "store_image_embedding"
    /\ op.returned
    /\ Exists(store, op.image_id)
    /\ "filename" \in DOMAIN store[op.image_id]
    /\ store[op.image_id].embedding_vector = op.embedding
    /\ \E id \in Ids : ~Exists(store, id)

\* ------------------------------------------ claims: the similarity operations

\* A step of a similarity operation: the embedding read or the ranking of
\* the similar-images request, a step of the batch search, the duplicate
\* search.
ReadStep == req' # req \/ batch' # batch \/ dup' # dup

\* C24: no step of rank, batchRank, findDuplicates or the embedding read
\* changes the table, whether the operation succeeds, fails or times out:
\* the set of records, the ids handed out and every field of every record
\* are the same after the step as before it.
C24_ReadOnly ==
    [][ReadStep => (store' = store /\ usedIds' = usedIds)]_vars

\* A batch search has failed on its second query (a timeout) after a first
\* query that returned rows, and the table still holds its records.
C24_Witness ==
    /\ batch.pc = "raised"
    /\ batch.started > 1
    /\ batch.last = TimeoutOutcome
    /\ Len(batch.results) > 0
    /\ Len(batch.results[1]) > 0
    /\ \E id \in Ids : Exists(store, id)

\* C26: every similarity score that rank or findDuplicates reports lies in
\* [0, 1], and a computed value outside that range is brought into it: it is
\* neither reported as computed nor the cause of a failure.  Here: every
\* similarity of a returned duplicate pair is a valid score, and a ranking
\* that met no store fault and no deadline has returned rows, all with
\* valid scores.
C26_ScoresClipped ==
    /\ DupReturned =>
          \A k \in 1..Len(DupRows) : ValidScore(DupRows[k].similarity)
    /\ (RankEnded /\ req.fault = "none") =>
          /\ RankReturned
          /\ \A k \in 1..Len(ReturnedRows) : ValidScore(ReturnedRows[k].similarity_score)

\* The records a ranking has to consider: completed, not the query image,
\* with a similarity to the query of at least the threshold.
Eligible ==
    {i \in Ids : /\ Present(i)
                 /\ store[i].status = "completed"
                 /\ i # req.image_id
                 /\ ScoreOf(i) >= req.threshold}

ReturnedIds == {ReturnedRows[k].id : k \in 1..Len(ReturnedRows)}

\* C27: a returned ranking leaves out no eligible record without cause.
\* With fewer than `limit` entries it names every eligible record; with
\* exactly `limit` entries, every eligible record it leaves out has a
\* similarity no greater than that of each returned record.
C27_NoneOmitted ==
    RankReturned =>
        /\ Len(ReturnedRows) < req.limit => Eligible \subseteq ReturnedIds
        /\ Len(ReturnedRows) = req.limit =>
              \A i \in Eligible \ ReturnedIds, k \in 1..Len(ReturnedRows) :
                  ScoreOf(i) <= ReturnedRows[k].similarity_score

\* A ranking has returned `limit` rows and left out an eligible record of
\* lower similarity than each of them.
C27_Witness ==
    /\ RankReturned
    /\ req.limit > 0
    /\ Len(ReturnedRows) = req.limit
    /\ \E i \in Eligible \ ReturnedIds :
          \A k \in 1..Len(ReturnedRows) : ScoreOf(i) < ReturnedRows[k].similarity_score

\* --------------------------------- claims: the two reads of a similar request

\* The step that reads the query embedding and goes on to the ranking.
EmbeddingReadStep == req.pc # "querying" /\ req'.pc = "querying"

\* The step in which the ranking statement runs and is answered with 200.
RankedStep ==
    req.pc = "querying" /\ req'.pc = "done" /\ req'.response.status_code = HTTP_200_OK

\* C30: with uploads, updates and deletes of other sessions between the two
\* reads of GET /{image_id}/similar, a response of 200 comes only from the
\* ranking read of a request whose embedding read found the query image
\* completed and took its embedding; the response never names the query
\* image, and every record it names was present and completed in the table
\* the ranking statement ran against.
C30_TwoReads ==
    [][/\ EmbeddingReadStep =>
              /\ HasStatus(store, req'.image_id, "completed")
              /\ req'.query_embedding = store[req'.image_id].embedding_vector
       /\ (req' # req /\ req'.response.status_code = HTTP_200_OK) => RankedStep
       /\ RankedStep =>
              /\ req'.image_id = req.image_id
              /\ req'.response.similar_images = req'.outcome.rows
              /\ \A k \in 1..Len(req'.response.similar_images) :
                    /\ req'.response.similar_images[k].id # req.image_id
                    /\ HasStatus(store, req'.response.similar_images[k].id, "completed")]_vars

\* A request was answered with 200 and a row although its query image was
\* deleted between the embedding read and the ranking read.
C30_Witness ==
    /\ req.pc = "done"
    /\ req.response.status_code = HTTP_200_OK
    /\ Len(req.response.similar_images) > 0
    /\ ~Exists(store, req.image_id)

=============================================================================
